---- MODULE Spec2Model ----
(***************************************************************************)
(* A model of the to-do list client (App.jsx, kept as src/unnamed/part_000).*)
(*                                                                         *)
(* The state is the React state of the App component (items, session,      *)
(* isLoading, dataError, activeId, editingId, hadSessionRef), the guest    *)
(* blob in localStorage, the rows of the remote "todos" table, the remote  *)
(* requests that are in flight together with the closure each completion   *)
(* callback runs in, and the session held by the auth library.             *)
(*                                                                         *)
(* An action is one event callback run to completion: React re-renders     *)
(* between events, so a user handler reads the current state, while a      *)
(* promise callback reads the values its closure captured when the request *)
(* was issued.                                                             *)
(***************************************************************************)
EXTENDS Integers, Sequences, FiniteSets, TLC

\* ------------------------------------------------------------------ bounds

\* Event callbacks run after the component has mounted, with the remote
\* client configured.
MaxSteps == 5
\* Of these, handlers of the item list (form, checkbox, delete, edit, drag).
MaxUserSteps == 2
\* Event callbacks run after the component has mounted, without it.
MaxGuestSteps == 4
\* Items in the guest blob when the page loads without the remote client.
MaxStored == 2
\* Items of a list handed to orderByCompletion on its own.
MaxLen == 3
\* Applications of orderByCompletion to one list.
MaxApplications == 2

\* ---------------------------------------------------------------- constants

Null == "null"
NoId == 0
\* A row whose position column is not a number.
NoPos == -1
Users == {"u1"}
\* An owner of rows of the table who does not sign in at this browser.
OtherOwners == {"u2"}
\* What the user may have typed into the add row or the edit input.
Drafts == { <<" ", " ">>, <<" ", "b", " ">> }

\* ------------------------------------------------------------ pure helpers

RECURSIVE TrimStart(_)
TrimStart(s) ==
    IF s = <<>> THEN <<>>
    ELSE IF Head(s) = " " THEN TrimStart(Tail(s)) ELSE s

RECURSIVE TrimEnd(_)
TrimEnd(s) ==
    IF s = <<>> THEN <<>>
    ELSE IF s[Len(s)] = " " THEN TrimEnd(SubSeq(s, 1, Len(s) - 1)) ELSE s

\* String.prototype.trim
Trim(s) == TrimEnd(TrimStart(s))

IdsOf(l) == { l[i].id : i \in 1..Len(l) }

IdSeq(l) == [i \in 1..Len(l) |-> l[i].id]

\* Array.prototype.findIndex on ids, 1-based; 0 when absent.
IndexOfId(l, id) ==
    IF \E i \in 1..Len(l) : l[i].id = id
    THEN CHOOSE i \in 1..Len(l) : l[i].id = id /\ \A j \in 1..(i - 1) : l[j].id # id
    ELSE 0

\* Array.prototype.find on ids; only used where the id is present.
ItemOf(l, id) == l[IndexOfId(l, id)]

Actives(l) == SelectSeq(l, LAMBDA it : ~it.isCompleted)

Completeds(l) == SelectSeq(l, LAMBDA it : it.isCompleted)

reindex(itemsList) ==
    [i \in 1..Len(itemsList) |-> [itemsList[i] EXCEPT !.position = i - 1]]

orderCompletedFirst(itemsList) ==
    reindex(Completeds(itemsList) \o Actives(itemsList))

orderByCompletion(itemsList) ==
    reindex(Actives(itemsList) \o Completeds(itemsList))

\* nextItems.splice(insertIndex, 0, newItem), insertIndex zero-based.
Splice(l, insertIndex, newItem) ==
    SubSeq(l, 1, insertIndex) \o <<newItem>> \o SubSeq(l, insertIndex + 1, Len(l))

\* items.findIndex((i) => i.isCompleted), then items.length when it is -1.
InsertIndex(l) ==
    IF \E i \in 1..Len(l) : l[i].isCompleted
    THEN (CHOOSE i \in 1..Len(l) :
            l[i].isCompleted /\ \A j \in 1..(i - 1) : ~l[j].isCompleted) - 1
    ELSE Len(l)

arraySwap(s, from, to) ==
    [i \in 1..Len(s) |-> IF i = from THEN s[to] ELSE IF i = to THEN s[from] ELSE s[i]]

\* arrayMove of @dnd-kit/sortable: remove the element at from, insert it at to
\* (both 1-based here).
arrayMove(s, from, to) ==
    LET without == SubSeq(s, 1, from - 1) \o SubSeq(s, from + 1, Len(s))
    IN SubSeq(without, 1, to - 1) \o <<s[from]>> \o SubSeq(without, to, Len(without))


\* ------------------------------------------------------------ remote table

\* A row of the "todos" table: id, title, completed, position, user_id.  The
\* order of the sequence is the order of created_at.  src is a history field:
\* the local id of the guest item a bulk insert created the row from (NoId
\* for every other row); no operation of the program reads it.
Row(id, title, completed, position, user, src) ==
    [id |-> id, title |-> title, completed |-> completed,
     position |-> position, user_id |-> user, src |-> src]

RECURSIVE InsertSorted(_, _)
InsertSorted(sorted, x) ==
    IF sorted = <<>> THEN <<x>>
    ELSE IF Head(sorted).position <= x.position
         THEN <<Head(sorted)>> \o InsertSorted(Tail(sorted), x)
         ELSE <<x>> \o sorted

\* A stable sort by position, ascending (Array.prototype.sort with
\* a.position - b.position, and ORDER BY position, created_at).
RECURSIVE SortByPosition(_)
SortByPosition(s) ==
    IF s = <<>> THEN <<>>
    ELSE InsertSorted(SortByPosition(SubSeq(s, 1, Len(s) - 1)), s[Len(s)])

\* .select(...).eq("user_id", user).order("position").order("created_at")
SelectRows(rows, user) ==
    SortByPosition(SelectSeq(rows, LAMBDA r : r.user_id = user))

NormalizeRowsUnsorted(rows) ==
    [i \in 1..Len(rows) |->
        [id |-> rows[i].id, content |-> rows[i].title,
         isCompleted |-> rows[i].completed,
         position |-> IF rows[i].position # NoPos THEN rows[i].position ELSE i - 1]]

normalizeRows(rows) == SortByPosition(NormalizeRowsUnsorted(rows))

\* The rows syncAll and loadAndMerge send to upsert.
UpsertPayload(withPositions, user) ==
    [i \in 1..Len(withPositions) |->
        Row(withPositions[i].id, withPositions[i].content,
            withPositions[i].isCompleted, withPositions[i].position, user, NoId)]

InsertPayloadFromZero(guestItems, existingLen, user) ==
    [i \in 1..Len(guestItems) |->
        Row(NoId, guestItems[i].content, guestItems[i].isCompleted,
            i - 1, user, guestItems[i].id)]

\* insertPayload of loadAndMerge: position = existing.length + index.
InsertPayload(guestItems, existingLen, user) ==
    [i \in 1..Len(guestItems) |->
        Row(NoId, guestItems[i].content, guestItems[i].isCompleted,
            existingLen + (i - 1), user, guestItems[i].id)]

\* INSERT: the table assigns the ids first, first + 1, ...
InsertRows(rows, payload, first) ==
    rows \o [i \in 1..Len(payload) |-> [payload[i] EXCEPT !.id = first + (i - 1)]]

UpsertOne(rows, p) ==
    IF \E i \in 1..Len(rows) : rows[i].id = p.id
    THEN [i \in 1..Len(rows) |->
            IF rows[i].id = p.id
            THEN [rows[i] EXCEPT !.title = p.title, !.completed = p.completed,
                                 !.position = p.position, !.user_id = p.user_id]
            ELSE rows[i]]
    ELSE Append(rows, p)

\* INSERT ... ON CONFLICT (id) DO UPDATE, row by row.
RECURSIVE UpsertRows(_, _)
UpsertRows(rows, payload) ==
    IF payload = <<>> THEN rows
    ELSE UpsertRows(UpsertOne(rows, Head(payload)), Tail(payload))

\* .delete().eq("id", id)
DeleteRows(rows, id) == SelectSeq(rows, LAMBDA r : r.id # id)

\* ----------------------------------------------------------- guest storage

\* What the browser does when the page reads window.localStorage:
\*   available    the key is missing or holds the JSON of an array (the blob)
\*   malformed    the key holds text that JSON.parse rejects
\*   notArray     the key holds valid JSON that is not an array
\*   unavailable  window.localStorage is undefined
\*   throws       reading window.localStorage raises (storage blocked)
StorageStates == {"available", "malformed", "notArray", "unavailable", "throws"}

\* What a call does: it returns a value, or it raises to its caller.
Returned(v) == [raised |-> FALSE, value |-> v]

Raised == [raised |-> TRUE, value |-> <<>>]

\* typeof window.localStorage !== "undefined": the property is read outside
\* any try block.
hasLocalStorage(st) ==
    IF st = "throws" THEN Raised ELSE Returned(st # "unavailable")

\* The list read from the blob.  Only JSON.parse and the array test are inside
\* the try block.
loadGuestItems(st, blob) ==
    IF hasLocalStorage(st).raised THEN Raised
    ELSE IF ~hasLocalStorage(st).value THEN Returned(<<>>)
    ELSE IF st = "malformed" THEN Returned(<<>>)
    ELSE IF st = "notArray" THEN Returned(<<>>)
    ELSE Returned(blob)

\* setItem and removeItem are reached only when hasLocalStorage() returned
\* true.
Writable(st) == ~hasLocalStorage(st).raised /\ hasLocalStorage(st).value

\* The state of the storage after setItem or removeItem went through.
Written(st) == IF Writable(st) THEN "available" ELSE st

\* The blob after persistGuestItems(list).
persistGuestItems(st, blob, list) == IF Writable(st) THEN list ELSE blob

\* The blob after clearGuestItems().
clearGuestItems(st, blob) == IF Writable(st) THEN <<>> ELSE blob

\* ------------------------------------------------------------------- state

VARIABLES
    hasSupabase,    \* Boolean(supabase): whether the remote client is configured
    items,          \* useState: the in-memory list
    guest,          \* localStorage["todo-guest-items"], parsed; <<>> when absent
    storage,        \* what reading window.localStorage does, see StorageStates
    mounted,        \* the component rendered: its state initialisers returned
    remote,         \* the rows of the remote table
    inflight,       \* remote requests issued and not yet answered
    session,        \* useState: Null, or the user id of the session object
    hadSessionRef,  \* useRef
    libSession,     \* the session the auth library holds: Null or a user id
    probePending,   \* supabase.auth.getSession() has not resolved yet
    signOutPending, \* supabase.auth.signOut() has been called and not finished
    isLoading,      \* useState
    dataError,      \* useState
    activeId,       \* useState: the item being dragged, or NoId
    editingId,      \* useState: the item being edited, or NoId
    nextId,         \* the next identifier to hand out
    steps,          \* the number of callbacks run so far
    userSteps,      \* the number of those that were handlers of the item list
    authMode,       \* useState: which form the auth panel shows
    isResettingPassword, \* useState
    mergeRuns,      \* history: runs of loadAndMerge started since the sign-in
    insertFailed,   \* history: a bulk insert failed since the sign-in
    deleted,        \* history: the deletes issued while authenticated that
                    \* have not failed, as [id, user]
    last            \* history: the callback that ran last, with its arguments

vars == <<hasSupabase, items, guest, storage, mounted, remote, inflight, session, hadSessionRef,
          libSession, probePending, signOutPending, isLoading, dataError,
          activeId, editingId, nextId, steps, userSteps, authMode, isResettingPassword,
          mergeRuns, insertFailed, deleted, last>>

authUi == <<authMode, isResettingPassword>>

authVars == <<session, hadSessionRef, libSession, probePending, signOutPending>>

\* A request in flight and the closure of its completion callback:
\*   kind       select | insertMany | reselect | mergeUpsert (loadAndMerge),
\*              insertOne (handleSubmit), upsert (syncAll), delete (handleDelete)
\*   user       session.user.id as the closure captured it
\*   cancelled  the cancelled flag of the loadAndMerge run that issued it
\*   payload    the rows sent
\*   snap       the list the closure holds: guestItems (select), existing
\*              (insertMany, reselect), items (insertOne)
\*   at         insertIndex (insertOne) or the id (delete)
Op(kind, user, payload, snap, at) ==
    [kind |-> kind, user |-> user, cancelled |-> FALSE,
     payload |-> payload, snap |-> snap, at |-> at]

MergeKinds == {"select", "insertMany", "reselect", "mergeUpsert"}

\* The effect's cleanup: cancelled = true in every run started so far.
CancelRuns(ops) ==
    { IF m.kind \in MergeKinds THEN [m EXCEPT !.cancelled = TRUE] ELSE m : m \in ops }

\* text is the draft or the edit text the callback read (<<>> for the others).
Last(op, id, over) == [op |-> op, id |-> id, over |-> over, text |-> <<>>]

LastWithText(op, id, text) == [Last(op, id, NoId) EXCEPT !.text = text]

Authenticated == session # Null /\ hasSupabase

Tick ==
    /\ mounted
    /\ steps < (IF hasSupabase THEN MaxSteps ELSE MaxGuestSteps)
    /\ steps' = steps + 1

\* A handler of the item list (form, checkbox, delete button, edit field,
\* drag) runs.
UserTick ==
    /\ Tick
    /\ hasSupabase => userSteps < MaxUserSteps
    /\ userSteps' = userSteps + 1

\* A list as syncAll writes it: k active items, then n - k completed ones,
\* positions 0..n-1, ids first..first+n-1.
StoredList(first, n, k) ==
    [i \in 1..n |-> [id |-> first + (i - 1), content |-> <<"a">>,
                     isCompleted |-> (i > k), position |-> i - 1]]

\* What the guest blob and the table hold when the page loads with the remote
\* client configured: lists an earlier visit wrote.  A guest list of one or
\* two items meets an empty table, a guest list of at most one item a table of
\* two rows.
StoredGuests == { StoredList(1, n, 1) : n \in 0..2 }

StoredTables ==
    { <<>> } \cup { UpsertPayload(StoredList(MaxStored + 1, 2, 1), u) : u \in Users }

\* A row of another owner that carries the id of the guest item: the
\* identifiers collide, or an earlier visit saved that owner's list as the
\* guest list (the list a merge adopted between handleSignOut and SIGNED_OUT,
\* saved by the next anonymous mutation).
ForeignTables == { UpsertPayload(StoredList(1, 1, 1), o) : o \in OtherOwners }

StoredStates ==
    { <<g, <<>>>> : g \in StoredGuests }
        \cup { <<g, t>> : g \in { <<>>, StoredList(1, 1, 1) }, t \in StoredTables }
        \cup { <<StoredList(1, 1, 1), t>> : t \in ForeignTables }

\* Identifiers (crypto.randomUUID, the table's default) are fresh.
FirstFreshId == MaxStored + 3

\* useState(() => reindex(loadGuestItems())): an initialiser that raises
\* leaves the component unrendered.
InitialItems(st, blob) ==
    IF loadGuestItems(st, blob).raised THEN <<>>
    ELSE reindex(loadGuestItems(st, blob).value)

Init ==
    /\ hasSupabase \in BOOLEAN
    /\ IF hasSupabase
       THEN /\ \E p \in StoredStates : guest = p[1] /\ remote = p[2]
            /\ storage = "available"
       ELSE /\ storage \in StorageStates
            /\ IF storage = "available"
               THEN \E n \in 0..MaxStored : \E k \in 0..n : guest = StoredList(1, n, k)
               ELSE guest = <<>>
            /\ remote = <<>>
    /\ items = InitialItems(storage, guest)
    /\ mounted = ~loadGuestItems(storage, guest).raised
    /\ inflight = {}
    /\ session = Null
    /\ hadSessionRef = FALSE
    /\ libSession \in IF hasSupabase THEN Users \cup {Null} ELSE {Null}
    /\ probePending = hasSupabase
    /\ signOutPending = FALSE
    /\ isLoading = FALSE
    /\ dataError = ""
    /\ activeId = NoId
    /\ editingId = NoId
    /\ nextId = FirstFreshId
    /\ steps = 0
    /\ userSteps = 0
    /\ authMode = "signIn"
    /\ isResettingPassword = FALSE
    /\ mergeRuns = 0
    /\ insertFailed = FALSE
    /\ deleted = {}
    /\ last = Last("init", NoId, NoId)


\* ------------------------------------------------------------ user handlers

UpsertOp(withPositions, user) ==
    Op("upsert", user, UpsertPayload(withPositions, user), <<>>, NoId)

\* syncAll after setItems(withPositions): the write-through, to the guest blob
\* or as an upsert of the whole list.  ops is the set of requests in flight
\* the upsert is added to.
SyncStores(withPositions, ops) ==
    IF ~Authenticated
    THEN /\ guest' = persistGuestItems(storage, guest, withPositions)
         /\ storage' = Written(storage)
         /\ inflight' = ops
    ELSE /\ guest' = guest
         /\ storage' = storage
         /\ inflight' = ops \cup {UpsertOp(withPositions, session)}

\* setItems((prev) => { ...; syncAll(nextItems); return nextItems; }): the
\* updater both queues setItems(reindex(nextItems)), inside syncAll, and returns
\* nextItems.  Which of the two values the state ends with depends on when React
\* runs the updater: run eagerly at dispatch (no update pending on the
\* component) the queued value is overwritten by the returned one; run while
\* rendering, the queued value is applied after the returned one.
UpdaterOutcomes(nextItems) == { nextItems, reindex(nextItems) }

SubmitNeverRejects(content) == FALSE

\* handleSubmit: `if (!content) return`.
SubmitRejects(content) == content = <<>>

handleSubmit(d) ==
    /\ UserTick
    /\ LET content == Trim(d)
           insertIndex == InsertIndex(items)
       IN  IF SubmitRejects(content)
        THEN /\ last' = LastWithText("handleSubmit", NoId, d)
             /\ UNCHANGED <<hasSupabase, mounted, deleted, authUi, items, guest, storage, remote, inflight, authVars,
                            isLoading, dataError, activeId, editingId, nextId,
                            insertFailed, mergeRuns>>
        ELSE IF ~Authenticated
        THEN LET newItem == [id |-> nextId, content |-> content,
                             isCompleted |-> FALSE, position |-> insertIndex]
                 nextItems == Splice(items, insertIndex, newItem)
             IN  /\ items' = reindex(nextItems)
                 /\ SyncStores(reindex(nextItems), inflight)
                 /\ nextId' = nextId + 1
                 /\ last' = LastWithText("handleSubmit", nextId, d)
                 /\ UNCHANGED <<hasSupabase, mounted, deleted, authUi, remote, authVars, isLoading, dataError,
                                activeId, editingId, insertFailed, mergeRuns>>
        ELSE LET op == Op("insertOne", session,
                          <<Row(NoId, content, FALSE, insertIndex, session, NoId)>>,
                          items, insertIndex)
             IN  /\ op \notin inflight
                 /\ inflight' = inflight \cup {op}
                 /\ last' = LastWithText("handleSubmit", NoId, d)
                 /\ UNCHANGED <<hasSupabase, mounted, deleted, authUi, items, guest, storage, remote, authVars, isLoading,
                                dataError, activeId, editingId, nextId, insertFailed,
                                mergeRuns>>

ToggleAppend(updated, id) ==
    LET moved == SelectSeq(updated, LAMBDA it : it.id = id)
        rest == SelectSeq(updated, LAMBDA it : it.id # id)
    IN  IF moved # <<>> /\ moved[1].isCompleted
        THEN Actives(rest) \o Completeds(rest) \o moved
        ELSE Actives(rest) \o moved \o Completeds(rest)

\* handleToggle: [...actives, ...completed] of the updated list.
TogglePartition(updated, id) == Actives(updated) \o Completeds(updated)

\* The checkbox is controlled: onChange passes the negation of item.isCompleted.
handleToggle(id) ==
    /\ UserTick
    /\ id \in IdsOf(items)
    /\ LET isCompleted == ~ItemOf(items, id).isCompleted
           updated == [i \in 1..Len(items) |->
                         IF items[i].id # id THEN items[i]
                         ELSE [items[i] EXCEPT !.isCompleted = isCompleted]]
           nextItems == TogglePartition(updated, id)
       IN  /\ \E out \in UpdaterOutcomes(nextItems) : items' = out
           /\ SyncStores(reindex(nextItems), inflight)
    /\ last' = Last("handleToggle", id, NoId)
    /\ UNCHANGED <<hasSupabase, mounted, deleted, authUi, remote, authVars, isLoading, dataError, activeId,
                   editingId, nextId, insertFailed, mergeRuns>>

handleDelete(id) ==
    /\ UserTick
    /\ id \in IdsOf(items)
    /\ LET nextItems == SelectSeq(items, LAMBDA it : it.id # id)
           ops == IF Authenticated
                  THEN inflight \cup {Op("delete", session, <<>>, <<>>, id)}
                  ELSE inflight
       IN  /\ \E out \in UpdaterOutcomes(nextItems) : items' = out
           /\ SyncStores(reindex(nextItems), ops)
    /\ deleted' = IF Authenticated
                  THEN deleted \cup {[id |-> id, user |-> session]}
                  ELSE deleted
    /\ last' = Last("handleDelete", id, NoId)
    /\ UNCHANGED <<hasSupabase, mounted, authUi, remote, authVars, isLoading, dataError, activeId,
                   editingId, nextId, insertFailed, mergeRuns>>

\* The span's onClick: setEditingId(item.id).
startEdit(id) ==
    /\ UserTick
    /\ id \in IdsOf(items)
    /\ editingId # id
    /\ editingId' = id
    /\ last' = Last("startEdit", id, NoId)
    /\ UNCHANGED <<hasSupabase, mounted, deleted, authUi, items, guest, storage, remote, inflight, authVars, isLoading,
                   dataError, activeId, nextId, insertFailed, mergeRuns>>

\* commitEdit(id), from the edit input of the item being edited (blur or Enter)
\* with editingText = t.
commitEdit(t) ==
    /\ UserTick
    /\ editingId \in IdsOf(items)
    /\ LET nextContent == Trim(t)
           nextItems == [i \in 1..Len(items) |->
                           IF items[i].id = editingId
                           THEN [items[i] EXCEPT !.content = nextContent]
                           ELSE items[i]]
       IN  IF nextContent = <<>>
           THEN UNCHANGED <<items, guest, storage, inflight>>
           ELSE /\ \E out \in UpdaterOutcomes(nextItems) : items' = out
                /\ SyncStores(reindex(nextItems), inflight)
    /\ editingId' = NoId
    /\ last' = LastWithText("commitEdit", editingId, t)
    /\ UNCHANGED <<hasSupabase, mounted, deleted, authUi, remote, authVars, isLoading, dataError, activeId,
                   nextId, insertFailed, mergeRuns>>

\* handleEditKeyDown with Escape.
cancelEdit ==
    /\ UserTick
    /\ editingId \in IdsOf(items)
    /\ editingId' = NoId
    /\ last' = Last("cancelEdit", editingId, NoId)
    /\ UNCHANGED <<hasSupabase, mounted, deleted, authUi, items, guest, storage, remote, inflight, authVars, isLoading,
                   dataError, activeId, nextId, insertFailed, mergeRuns>>

onDragStart(id) ==
    /\ UserTick
    /\ id \in IdsOf(items)
    /\ activeId = NoId
    /\ activeId' = id
    /\ editingId' = NoId
    /\ last' = Last("onDragStart", id, NoId)
    /\ UNCHANGED <<hasSupabase, mounted, deleted, authUi, items, guest, storage, remote, inflight, authVars, isLoading,
                   dataError, nextId, insertFailed, mergeRuns>>

onDragCancel ==
    /\ UserTick
    /\ activeId # NoId
    /\ activeId' = NoId
    /\ last' = Last("onDragCancel", activeId, NoId)
    /\ UNCHANGED <<hasSupabase, mounted, deleted, authUi, items, guest, storage, remote, inflight, authVars, isLoading,
                   dataError, editingId, nextId, insertFailed, mergeRuns>>

DragResultWholeList(prev, active, over) ==
    IF active \notin IdsOf(prev) \/ over \notin IdsOf(prev) THEN <<prev, FALSE>>
    ELSE LET ids == arrayMove(IdSeq(prev), IndexOfId(prev, active), IndexOfId(prev, over))
         IN  << [i \in 1..Len(ids) |-> ItemOf(prev, ids[i])], TRUE >>

\* onDragEnd: overSameSegment.
SameSegment(activeItem, overItem) == activeItem.isCompleted = overItem.isCompleted

\* The list the updater of onDragEnd computes, and whether it calls syncAll:
\* <<nextItems, synced>>.
DragResult(prev, active, over) ==
    IF active \notin IdsOf(prev) \/ over \notin IdsOf(prev) THEN <<prev, FALSE>>
    ELSE
    LET activeItem == ItemOf(prev, active)
        overItem == ItemOf(prev, over)
        activeIds == IdSeq(Actives(prev))
        completedIds == IdSeq(Completeds(prev))
        segmentIds == IF activeItem.isCompleted THEN completedIds ELSE activeIds
        segment == IF activeItem.isCompleted THEN Completeds(prev) ELSE Actives(prev)
        fromIndex == IndexOfId(segment, active)
        toIndex == IndexOfId(segment, over)
    IN  IF ~SameSegment(activeItem, overItem) THEN <<prev, FALSE>>
        ELSE IF toIndex = 0 THEN <<prev, FALSE>>
        ELSE
        LET reorderedSegment == arrayMove(segmentIds, fromIndex, toIndex)
            nextActiveIds == IF activeItem.isCompleted THEN activeIds ELSE reorderedSegment
            nextCompletedIds == IF activeItem.isCompleted THEN reorderedSegment ELSE completedIds
            ids == nextActiveIds \o nextCompletedIds
        IN  << [i \in 1..Len(ids) |-> ItemOf(prev, ids[i])], TRUE >>

DropIgnoredWithoutTarget(active, over) == over = NoId

\* onDragEnd: if (!over) return; if (active.id === over.id) return;
DropIgnored(active, over) == over = NoId \/ over = active

\* onDragEnd with event.active.id = activeId and event.over = over (NoId: no
\* drop target).  setActiveId(null) is queued before setItems(updater), so the
\* updater runs while rendering and the list syncAll queued is the one kept.
onDragEnd(over) ==
    /\ UserTick
    /\ activeId # NoId
    /\ over \in IdsOf(items) \cup {NoId}
    /\ activeId' = NoId
    /\ last' = Last("onDragEnd", activeId, over)
    /\ IF DropIgnored(activeId, over)
       THEN UNCHANGED <<items, guest, storage, inflight>>
       ELSE LET res == DragResult(items, activeId, over)
            IN  IF ~res[2]
                THEN UNCHANGED <<items, guest, storage, inflight>>
                ELSE /\ items' = reindex(res[1])
                     /\ SyncStores(reindex(res[1]), inflight)
    /\ UNCHANGED <<hasSupabase, mounted, deleted, authUi, remote, authVars, isLoading, dataError, editingId,
                   nextId, insertFailed, mergeRuns>>


\* ------------------------------------------------- loadAndMerge, step by step

MergeUpsertOp(list, user) ==
    Op("mergeUpsert", user, UpsertPayload(list, user), <<>>, NoId)

\* The first await of loadAndMerge returns: lines 373-408.
selectDone(m, ok) ==
    /\ Tick
    /\ m \in inflight
    /\ m.kind = "select"
    /\ IF m.cancelled
       THEN /\ inflight' = inflight \ {m}
            /\ last' = Last("select:cancelled", NoId, NoId)
            /\ UNCHANGED <<items, isLoading, dataError>>
       ELSE IF ~ok
       THEN /\ dataError' = "select failed"
            /\ items' = <<>>
            /\ isLoading' = FALSE
            /\ inflight' = inflight \ {m}
            /\ last' = Last("select:error", NoId, NoId)
       ELSE LET existing == orderByCompletion(normalizeRows(SelectRows(remote, m.user)))
            IN  IF m.snap = <<>>
                THEN /\ items' = existing
                     /\ inflight' = (inflight \ {m}) \cup {MergeUpsertOp(existing, m.user)}
                     /\ isLoading' = FALSE
                     /\ last' = Last("select:adopt", NoId, NoId)
                     /\ UNCHANGED dataError
                ELSE /\ inflight' = (inflight \ {m}) \cup
                          {Op("insertMany", m.user,
                              InsertPayload(m.snap, Len(existing), m.user), existing, NoId)}
                     /\ last' = Last("select:insert", NoId, NoId)
                     /\ UNCHANGED <<items, isLoading, dataError>>
    /\ UNCHANGED <<hasSupabase, mounted, deleted, userSteps, authUi, guest, storage, remote, authVars, activeId, editingId, nextId,
                   insertFailed, mergeRuns>>

\* Whether the continuation after the bulk insert reaches clearGuestItems():
\* lines 410-418.
InsertClearsGuest(m, ok) == ~m.cancelled /\ ok

\* The bulk insert returns: lines 406-425.  The rows are written whether or
\* not the run has been cancelled meanwhile.
insertManyDone(m, ok) ==
    /\ Tick
    /\ m \in inflight
    /\ m.kind = "insertMany"
    /\ remote' = IF ok THEN InsertRows(remote, m.payload, nextId) ELSE remote
    /\ nextId' = IF ok THEN nextId + Len(m.payload) ELSE nextId
    /\ guest' = IF InsertClearsGuest(m, ok) THEN clearGuestItems(storage, guest) ELSE guest
    /\ storage' = IF InsertClearsGuest(m, ok) THEN Written(storage) ELSE storage
    /\ IF m.cancelled
       THEN /\ inflight' = inflight \ {m}
            /\ last' = Last("insertMany:cancelled", NoId, NoId)
            /\ UNCHANGED <<items, isLoading, dataError, insertFailed>>
       ELSE IF ~ok
       THEN /\ dataError' = "insert failed"
            /\ items' = m.snap
            /\ isLoading' = FALSE
            /\ insertFailed' = TRUE
            /\ inflight' = inflight \ {m}
            /\ last' = Last("insertMany:error", NoId, NoId)
       ELSE /\ inflight' = (inflight \ {m}) \cup
                 {Op("reselect", m.user, m.payload, m.snap, NoId)}
            /\ last' = Last("insertMany:ok", NoId, NoId)
            /\ UNCHANGED <<items, isLoading, dataError, insertFailed>>
    /\ UNCHANGED <<hasSupabase, mounted, deleted, userSteps, authUi, authVars, activeId, editingId, mergeRuns>>

\* The re-fetch returns: lines 427-447.
reselectDone(m, ok) ==
    /\ Tick
    /\ m \in inflight
    /\ m.kind = "reselect"
    /\ IF m.cancelled
       THEN /\ inflight' = inflight \ {m}
            /\ last' = Last("reselect:cancelled", NoId, NoId)
            /\ UNCHANGED <<items, isLoading, dataError>>
       ELSE IF ~ok
       THEN /\ dataError' = "select failed"
            /\ items' = m.snap
            /\ isLoading' = FALSE
            /\ inflight' = inflight \ {m}
            /\ last' = Last("reselect:error", NoId, NoId)
       ELSE LET ordered == orderByCompletion(normalizeRows(SelectRows(remote, m.user)))
            IN  /\ items' = ordered
                /\ inflight' = (inflight \ {m}) \cup {MergeUpsertOp(ordered, m.user)}
                /\ isLoading' = FALSE
                /\ last' = Last("reselect:ok", NoId, NoId)
                /\ UNCHANGED dataError
    /\ UNCHANGED <<hasSupabase, mounted, deleted, userSteps, authUi, guest, storage, remote, authVars, activeId, editingId, nextId,
                   insertFailed, mergeRuns>>

\* -------------------------------------------- the other completion callbacks

\* An upsert returns: the callback of syncAll (lines 340-342) and of
\* loadAndMerge (lines 392-394, 442-444).
upsertDone(m, ok) ==
    /\ Tick
    /\ m \in inflight
    /\ m.kind \in {"upsert", "mergeUpsert"}
    /\ inflight' = inflight \ {m}
    /\ remote' = IF ok THEN UpsertRows(remote, m.payload) ELSE remote
    /\ dataError' = IF ok THEN dataError ELSE "upsert failed"
    /\ last' = Last(IF ok THEN "upsert:ok" ELSE "upsert:error", NoId, NoId)
    /\ UNCHANGED <<hasSupabase, mounted, deleted, userSteps, authUi, items, guest, storage, authVars, isLoading, activeId, editingId,
                   nextId, insertFailed, mergeRuns>>

\* The delete of handleDelete returns: lines 228-230.
deleteDone(m, ok) ==
    /\ Tick
    /\ m \in inflight
    /\ m.kind = "delete"
    /\ inflight' = inflight \ {m}
    /\ remote' = IF ok THEN DeleteRows(remote, m.at) ELSE remote
    /\ deleted' = IF ok THEN deleted ELSE deleted \ {[id |-> m.at, user |-> m.user]}
    /\ dataError' = IF ok THEN dataError ELSE "delete failed"
    /\ last' = Last(IF ok THEN "delete:ok" ELSE "delete:error", m.at, NoId)
    /\ UNCHANGED <<hasSupabase, mounted, userSteps, authUi, items, guest, storage, authVars, isLoading, activeId, editingId,
                   nextId, insertFailed, mergeRuns>>

\* The insert of handleSubmit returns: lines 188-205.  items, insertIndex,
\* session and syncAll are those of the render the form was submitted in.
insertOneDone(m, ok) ==
    /\ Tick
    /\ m \in inflight
    /\ m.kind = "insertOne"
    /\ IF ~ok
       THEN /\ dataError' = "insert failed"
            /\ inflight' = inflight \ {m}
            /\ last' = Last("insertOne:error", NoId, NoId)
            /\ UNCHANGED <<items, remote, nextId>>
       ELSE LET inserted == InsertRows(<<>>, m.payload, nextId)[1]
                newItem == [id |-> inserted.id, content |-> inserted.title,
                            isCompleted |-> inserted.completed, position |-> m.at]
                nextItems == Splice(m.snap, m.at, newItem)
            IN  /\ remote' = InsertRows(remote, m.payload, nextId)
                /\ nextId' = nextId + 1
                /\ items' = reindex(nextItems)
                /\ inflight' = (inflight \ {m}) \cup {UpsertOp(reindex(nextItems), m.user)}
                /\ last' = Last("insertOne:ok", inserted.id, NoId)
                /\ UNCHANGED dataError
    /\ UNCHANGED <<hasSupabase, mounted, deleted, userSteps, authUi, guest, storage, authVars, isLoading, activeId, editingId,
                   insertFailed, mergeRuns>>


\* -------------------------------------------------------------------- auth

\* The body shared by the getSession callback (lines 110-120) and the
\* onAuthStateChange callback (lines 123-131), followed by the re-render and
\* the effect on [hasSupabase, session] (lines 356-454).  A non-null
\* nextSession is a session object the component has not seen before, so the
\* effect's cleanup runs and loadAndMerge starts again.
AuthCallback(nextSession) ==
    LET hadSession == hadSessionRef
        cleared == nextSession = Null /\ hadSession
        changed == ~(nextSession = Null /\ session = Null)
        guestNow == IF cleared THEN clearGuestItems(storage, guest) ELSE guest
        storageNow == IF cleared THEN Written(storage) ELSE storage
        guestItems == loadGuestItems(storageNow, guestNow).value
        ops == IF changed THEN CancelRuns(inflight) ELSE inflight
    IN  /\ Cardinality(ops) = Cardinality(inflight)
        /\ session' = nextSession
        /\ hadSessionRef' = (nextSession # Null)
        /\ items' = IF cleared THEN <<>> ELSE items
        /\ guest' = guestNow
        /\ storage' = storageNow
        /\ insertFailed' = IF nextSession = Null THEN FALSE ELSE insertFailed
        /\ mergeRuns' = IF nextSession = Null THEN 0
                        ELSE IF session = Null THEN 1 ELSE mergeRuns + 1
        /\ IF nextSession # Null
           THEN /\ isLoading' = TRUE
                /\ dataError' = ""
                /\ inflight' = ops \cup
                      {Op("select", nextSession, <<>>, reindex(guestItems), NoId)}
           ELSE /\ isLoading' = IF cleared THEN FALSE ELSE isLoading
                /\ dataError' = dataError
                /\ inflight' = ops

\* supabase.auth.getSession() resolves with the session the library holds.
getSessionResolves ==
    /\ Tick
    /\ probePending
    /\ probePending' = FALSE
    /\ AuthCallback(libSession)
    /\ last' = Last("getSession", NoId, NoId)
    /\ UNCHANGED <<hasSupabase, mounted, deleted, userSteps, authUi, remote, libSession, signOutPending, activeId,
                   editingId, nextId>>

\* handleAuthSubmit: signInWithPassword succeeds and the feed reports SIGNED_IN.
\* The library holds no session, so the probe of the mount has resolved by the
\* time the form's round trip has.
signIn(u) ==
    /\ Tick
    /\ hasSupabase
    /\ ~probePending
    /\ session = Null
    /\ libSession = Null
    /\ ~signOutPending
    /\ libSession' = u
    /\ AuthCallback(u)
    /\ last' = Last("SIGNED_IN", NoId, NoId)
    /\ UNCHANGED <<hasSupabase, mounted, deleted, userSteps, authUi, remote, probePending, signOutPending, activeId,
                   editingId, nextId>>

\* The feed reports the session the library holds once more (INITIAL_SESSION
\* at subscription, TOKEN_REFRESHED, ...).
sessionEvent ==
    /\ Tick
    /\ hasSupabase
    /\ libSession # Null
    /\ AuthCallback(libSession)
    /\ last' = Last("TOKEN_REFRESHED", NoId, NoId)
    /\ UNCHANGED <<hasSupabase, mounted, deleted, userSteps, authUi, remote, libSession, probePending, signOutPending,
                   activeId, editingId, nextId>>

\* The page is opened from a password-recovery link in a browser that holds no
\* session: the feed reports PASSWORD_RECOVERY with the session of the
\* recovering user (lines 123-139).
passwordRecovery(u) ==
    /\ Tick
    /\ hasSupabase
    /\ session = Null
    /\ libSession = Null
    /\ ~signOutPending
    /\ libSession' = u
    /\ AuthCallback(u)
    /\ isResettingPassword' = TRUE
    /\ authMode' = "reset"
    /\ last' = Last("PASSWORD_RECOVERY", NoId, NoId)
    /\ UNCHANGED <<hasSupabase, mounted, deleted, userSteps, remote, probePending, signOutPending, activeId,
                   editingId, nextId>>

\* The library loses its session (expiry): the feed reports SIGNED_OUT.
sessionLost ==
    /\ Tick
    /\ hasSupabase
    /\ libSession # Null
    /\ libSession' = Null
    /\ AuthCallback(Null)
    /\ last' = Last("SIGNED_OUT", NoId, NoId)
    /\ UNCHANGED <<hasSupabase, mounted, deleted, userSteps, authUi, remote, probePending, signOutPending, activeId,
                   editingId, nextId>>

handleSignOut ==
    /\ Tick
    /\ Authenticated
    /\ guest' = clearGuestItems(storage, guest)
    /\ storage' = Written(storage)
    /\ items' = <<>>
    /\ hadSessionRef' = FALSE
    /\ signOutPending' = TRUE
    /\ isResettingPassword' = FALSE
    /\ authMode' = "signIn"
    /\ last' = Last("handleSignOut", NoId, NoId)
    /\ UNCHANGED <<hasSupabase, mounted, deleted, userSteps, remote, inflight, session, libSession, probePending,
                   isLoading, dataError, activeId, editingId, nextId, insertFailed,
                   mergeRuns>>

\* supabase.auth.signOut() finishes: the session is removed and the feed
\* reports SIGNED_OUT.
signOutDone ==
    /\ Tick
    /\ signOutPending
    /\ signOutPending' = FALSE
    /\ libSession' = Null
    /\ AuthCallback(Null)
    /\ last' = Last("signOutDone", NoId, NoId)
    /\ UNCHANGED <<hasSupabase, mounted, deleted, userSteps, authUi, remote, probePending, activeId, editingId, nextId>>

\* ----------------------------------------------------------- specification

Next ==
    \/ \E d \in Drafts : handleSubmit(d)
    \/ \E id \in IdsOf(items) : handleToggle(id)
    \/ \E id \in IdsOf(items) : handleDelete(id)
    \/ \E id \in IdsOf(items) : startEdit(id)
    \/ \E t \in Drafts : commitEdit(t)
    \/ cancelEdit
    \/ \E id \in IdsOf(items) : onDragStart(id)
    \/ onDragCancel
    \/ \E over \in IdsOf(items) \cup {NoId} : onDragEnd(over)
    \/ \E m \in inflight, ok \in BOOLEAN : selectDone(m, ok)
    \/ \E m \in inflight, ok \in BOOLEAN : insertManyDone(m, ok)
    \/ \E m \in inflight, ok \in BOOLEAN : reselectDone(m, ok)
    \/ \E m \in inflight, ok \in BOOLEAN : upsertDone(m, ok)
    \/ \E m \in inflight, ok \in BOOLEAN : deleteDone(m, ok)
    \/ \E m \in inflight, ok \in BOOLEAN : insertOneDone(m, ok)
    \/ getSessionResolves
    \/ \E u \in Users : signIn(u)
    \/ sessionEvent
    \/ \E u \in Users : passwordRecovery(u)
    \/ sessionLost
    \/ handleSignOut
    \/ signOutDone

Spec == Init /\ [][Next]_vars

\* ------------------------------------------------ after the list was loaded

\* The state in which loadAndMerge leaves a user who signed in with an empty
\* guest list and a table of two rows: the rows are on screen and the upsert
\* of lines 385-394 is in flight.
InitLoaded ==
    /\ hasSupabase = TRUE
    /\ session \in Users
    /\ remote = UpsertPayload(StoredList(MaxStored + 1, 2, 1), session)
    /\ items = orderByCompletion(normalizeRows(SelectRows(remote, session)))
    /\ inflight = {MergeUpsertOp(items, session)}
    /\ guest = <<>>
    /\ storage = "available"
    /\ mounted = TRUE
    /\ hadSessionRef = TRUE
    /\ libSession = session
    /\ probePending = FALSE
    /\ signOutPending = FALSE
    /\ isLoading = FALSE
    /\ dataError = ""
    /\ activeId = NoId
    /\ editingId = NoId
    /\ nextId = FirstFreshId
    /\ steps = 0
    /\ userSteps = 0
    /\ authMode = "signIn"
    /\ isResettingPassword = FALSE
    /\ mergeRuns = 1
    /\ insertFailed = FALSE
    /\ deleted = {}
    /\ last = Last("select:adopt", NoId, NoId)

\* The handlers of the item list and the responses to the requests they
\* send, while the session stays as it is.
NextLoaded ==
    \/ \E d \in Drafts : handleSubmit(d)
    \/ \E id \in IdsOf(items) : handleToggle(id)
    \/ \E id \in IdsOf(items) : handleDelete(id)
    \/ \E id \in IdsOf(items) : startEdit(id)
    \/ \E t \in Drafts : commitEdit(t)
    \/ cancelEdit
    \/ \E id \in IdsOf(items) : onDragStart(id)
    \/ onDragCancel
    \/ \E over \in IdsOf(items) \cup {NoId} : onDragEnd(over)
    \/ \E m \in inflight, ok \in BOOLEAN : upsertDone(m, ok)
    \/ \E m \in inflight, ok \in BOOLEAN : deleteDone(m, ok)
    \/ \E m \in inflight, ok \in BOOLEAN : insertOneDone(m, ok)

SpecLoaded == InitLoaded /\ [][NextLoaded]_vars

\* ------------------------------------------- orderByCompletion on its own

\* The orders in which n distinct ids can stand in a list.
IdOrders(n) == { f \in [1..n -> 1..n] : \A i, j \in 1..n : f[i] = f[j] => i = j }

\* A list orderByCompletion is applied to.
InputList(n, ids, done, pos) ==
    [i \in 1..n |-> [id |-> ids[i], content |-> <<"a">>,
                     isCompleted |-> done[i], position |-> pos[i]]]

\* Up to MaxLen items with distinct ids in any order, any completion flags and
\* any position fields.
InitOrder ==
    /\ \E n \in 0..MaxLen :
          \E ids \in IdOrders(n), done \in [1..n -> BOOLEAN],
             pos \in [1..n -> 0..(MaxLen - 1)] :
              items = InputList(n, ids, done, pos)
    /\ hasSupabase = FALSE
    /\ guest = <<>>
    /\ storage = "available"
    /\ mounted = TRUE
    /\ remote = <<>>
    /\ inflight = {}
    /\ session = Null
    /\ hadSessionRef = FALSE
    /\ libSession = Null
    /\ probePending = FALSE
    /\ signOutPending = FALSE
    /\ isLoading = FALSE
    /\ dataError = ""
    /\ activeId = NoId
    /\ editingId = NoId
    /\ nextId = FirstFreshId
    /\ steps = 0
    /\ userSteps = 0
    /\ authMode = "signIn"
    /\ isResettingPassword = FALSE
    /\ mergeRuns = 0
    /\ insertFailed = FALSE
    /\ deleted = {}
    /\ last = Last("input", NoId, NoId)

\* items = orderByCompletion(items)
applyOrderByCompletion ==
    /\ steps < MaxApplications
    /\ steps' = steps + 1
    /\ items' = orderByCompletion(items)
    /\ last' = Last("orderByCompletion", NoId, NoId)
    /\ UNCHANGED <<hasSupabase, guest, storage, mounted, remote, inflight, session,
                   hadSessionRef, libSession, probePending, signOutPending, isLoading,
                   dataError, activeId, editingId, nextId, userSteps, authMode,
                   isResettingPassword, mergeRuns, insertFailed, deleted>>

NextOrder == applyOrderByCompletion

SpecOrder == InitOrder /\ [][NextOrder]_vars

\* ------------------------------------------------------ the list's invariant

Partitioned(l) ==
    \A i, j \in 1..Len(l) : (i < j /\ l[i].isCompleted) => l[j].isCompleted

DensePositions(l) == \A i \in 1..Len(l) : l[i].position = i - 1

\* C1: in every reachable state the in-memory list has every incomplete item
\* before every completed item, and its position fields, read in list order,
\* are exactly 0, 1, ..., n-1.
C1_ItemsPartitionedAndDense == Partitioned(items) /\ DensePositions(items)

\* ------------------------------------------------------------ merge and auth

\* The rows a bulk insert created from guest items.
MergedRows == SelectSeq(remote, LAMBDA r : r.src # NoId)

\* C2: each guest item is inserted into the remote table at most once: no two
\* rows come from the same guest item, and a run of loadAndMerge that starts
\* reads no guest item a bulk insert has already written to the table.
C2_GuestItemInsertedAtMostOnce ==
    [][ /\ \A i, j \in 1..Len(MergedRows') :
              MergedRows'[i].src = MergedRows'[j].src => i = j
        /\ mergeRuns' > mergeRuns =>
              IdsOf(guest') \cap { MergedRows'[i].src : i \in 1..Len(MergedRows') } = {}
      ]_vars

\* C3: loadAndMerge is started exactly once per Anonymous -> Authenticated
\* transition: while the session stays non-null no second run is started.
C3_MergeStartedOncePerSignIn ==
    /\ session # Null => mergeRuns = 1
    /\ session = Null => mergeRuns = 0

ResponseOps ==
    { "select:cancelled", "select:error", "select:adopt", "select:insert",
      "insertMany:cancelled", "insertMany:error", "insertMany:ok",
      "reselect:cancelled", "reselect:error", "reselect:ok",
      "upsert:ok", "upsert:error", "delete:ok", "delete:error",
      "insertOne:ok", "insertOne:error" }

\* C5: when the bulk insert of a merge fails, the error is put in dataError,
\* the list becomes `existing`, the guest blob is left as it was, isLoading is
\* cleared, and no further bulk insert is issued for that sign-in.
C5_InsertFailureIsFinal ==
    [][ /\ last'.op = "insertMany:error" =>
              /\ dataError' = "insert failed"
              /\ \E m \in inflight \ inflight' : m.kind = "insertMany" /\ items' = m.snap
              /\ guest' = guest
              /\ isLoading' = FALSE
        /\ insertFailed => ~ \E m \in inflight' \ inflight : m.kind = "insertMany"
      ]_vars

\* C6: every Authenticated -> Anonymous transition leaves the in-memory list
\* and the guest store empty, and while the component stays Anonymous no
\* response to a request issued under the old session changes either of them.
C6_SignedOutStaysEmpty ==
    [][ /\ (session # Null /\ session' = Null) => (items' = <<>> /\ guest' = <<>>)
        /\ (session = Null /\ session' = Null /\ last'.op \in ResponseOps) =>
              (items' = items /\ guest' = guest)
      ]_vars

\* C7: a run of loadAndMerge whose cancelled flag is set makes no further
\* update to items, dataError or isLoading, the completion callbacks of the
\* upserts it issued included.
C7_CancelledRunIsSilent ==
    [][ \A m \in inflight \ inflight' :
            (m.kind \in MergeKinds /\ m.cancelled) =>
                (items' = items /\ dataError' = dataError /\ isLoading' = isLoading)
      ]_vars

\* C8: once every outstanding response and auth event has been delivered,
\* isLoading is cleared, whatever became of the merge that set it.
C8_LoadingClearedAtQuiescence ==
    (inflight = {} /\ ~probePending /\ ~signOutPending) => ~isLoading

\* The rows of the table that belong to the user of request m.
RowsOfUser(m) == SelectSeq(remote, LAMBDA r : r.user_id = m.user)

\* The guest items the run of m sent to the bulk insert, by their local ids.
MergedIds(m) == { m.payload[i].src : i \in 1..Len(m.payload) }

\* The row the bulk insert of the run of m created from its i-th guest item.
MergedRow(m, i) ==
    LET rows == RowsOfUser(m)
    IN  rows[CHOOSE x \in 1..Len(rows) : rows[x].src = m.payload[i].src]

\* The merge the re-fetch m ends was the only writer: the user's rows are the
\* n rows fetched first and one row for each of the k guest items.
CleanMerge(m) ==
    LET rows == RowsOfUser(m)
    IN  /\ Len(rows) = Len(m.snap) + Len(m.payload)
        /\ \A i \in 1..Len(m.snap) : \E x \in 1..Len(rows) :
              rows[x].id = m.snap[i].id /\ rows[x].src \notin MergedIds(m)
        /\ \A i \in 1..Len(m.payload) :
              Cardinality({ x \in 1..Len(rows) : rows[x].src = m.payload[i].src }) = 1

\* The re-fetch of a run that was not cancelled returns rows.
MergeCompletes(m) ==
    /\ last'.op = "reselect:ok"
    /\ m.kind = "reselect"
    /\ ~m.cancelled
    /\ CleanMerge(m)

\* C4: after a successful merge of k guest items into n existing rows the
\* guest blob is cleared, the table and the adopted list have n + k items, the
\* guest rows are stored at positions n..n+k-1 in their original order, and in
\* the adopted list, which is partitioned by completion again, the guest items
\* keep their relative order and each follows every existing item of its own
\* completion state whose stored position is not greater than its own.
C4_MergeAppendsWithinSegments ==
    [][ \A m \in inflight \ inflight' : MergeCompletes(m) =>
          LET n == Len(m.snap)
              k == Len(m.payload)
              rows == RowsOfUser(m)
          IN  /\ guest' = <<>>
              /\ Len(items') = n + k
              /\ IdsOf(items') = { rows[x].id : x \in 1..Len(rows) }
              /\ Partitioned(items') /\ DensePositions(items')
              /\ \A i \in 1..k : MergedRow(m, i).position = n + (i - 1)
              /\ \A i, j \in 1..k : i < j =>
                    IndexOfId(items', MergedRow(m, i).id)
                        < IndexOfId(items', MergedRow(m, j).id)
              /\ \A i \in 1..k : \A x \in 1..Len(rows) :
                    ( /\ rows[x].id \in IdsOf(m.snap)
                      /\ rows[x].completed = MergedRow(m, i).completed
                      /\ rows[x].position <= MergedRow(m, i).position )
                    => IndexOfId(items', rows[x].id)
                          < IndexOfId(items', MergedRow(m, i).id)
      ]_vars

\* C4, witness: a merge of guest items into a non-empty remote list has just
\* completed and the adopted list holds both kinds of item.
C4_MergedIntoExisting ==
    /\ last.op = "reselect:ok"
    /\ guest = <<>>
    /\ \E x, y \in 1..Len(remote) :
          /\ remote[x].src # NoId
          /\ remote[y].src = NoId
          /\ remote[x].user_id = session
          /\ remote[y].user_id = session
          /\ {remote[x].id, remote[y].id} \subseteq IdsOf(items)

\* C4 as the specification states it: after a successful merge the guest items
\* appear after all existing items, at positions n..n+k-1 of the adopted list,
\* in their original order.
C4_GuestItemsAfterAllExisting ==
    [][ \A m \in inflight \ inflight' : MergeCompletes(m) =>
          /\ guest' = <<>>
          /\ Len(items') = Len(m.snap) + Len(m.payload)
          /\ \A i \in 1..Len(m.payload) :
                items'[Len(m.snap) + i].id = MergedRow(m, i).id
      ]_vars

\* ------------------------------------------------------------ toggle and drag

OthersOrder(l, id) == IdSeq(SelectSeq(l, LAMBDA it : it.id # id))

\* C9: toggling an active item to completed places it at the start of the
\* completed segment (before every item that was already completed); toggling
\* a completed item back to active places it at the end of the active segment;
\* in both cases the relative order of all other items is unchanged.
C9_ToggleMovesToSegmentBoundary ==
    [][ last'.op = "handleToggle" =>
          LET id == last'.id
              was == ItemOf(items, id).isCompleted
          IN  /\ ItemOf(items', id).isCompleted = ~was
              /\ OthersOrder(items', id) = OthersOrder(items, id)
              /\ Partitioned(items')
              /\ ~was => Completeds(items')[1].id = id
              /\ was => Actives(items')[Len(Actives(items'))].id = id
      ]_vars

\* C9, witness: an item has just been toggled to completed in a list that
\* already held a completed item and still holds an active one.
C9_ToggledIntoCompleted ==
    /\ last.op = "handleToggle"
    /\ last.id \in IdsOf(items)
    /\ ItemOf(items, last.id).isCompleted
    /\ Len(Completeds(items)) >= 2
    /\ Len(Actives(items)) >= 1

\* C9 as the specification states it: toggling an active item to completed
\* places it at the end of the completed segment, toggling it back at the end
\* of the active segment.
C9_ToggleMovesToSegmentEnd ==
    [][ last'.op = "handleToggle" =>
          LET id == last'.id
              was == ItemOf(items, id).isCompleted
          IN  /\ OthersOrder(items', id) = OthersOrder(items, id)
              /\ ~was => items'[Len(items')].id = id
              /\ was => Actives(items')[Len(Actives(items'))].id = id
      ]_vars

\* The drag that has just ended had the moved item and the target item in
\* different segments of the list l.
CrossSegment(l, l2) ==
    /\ l2.op = "onDragEnd"
    /\ l2.id \in IdsOf(l)
    /\ l2.over \in IdsOf(l)
    /\ ItemOf(l, l2.id).isCompleted # ItemOf(l, l2.over).isCompleted

\* C10: a drag that ends with the moved item and the target item in different
\* segments leaves the in-memory list unchanged and issues no write to the
\* guest store or the remote table.
C10_CrossSegmentDragIsNoOp ==
    [][ CrossSegment(items, last') =>
          /\ items' = items
          /\ guest' = guest
          /\ inflight' = inflight
          /\ remote' = remote
      ]_vars

\* C10, witness: a drag has just ended on an item of the other segment.
C10_DroppedOnOtherSegment == CrossSegment(items, last)

\* The drag that has just ended had distinct moved and target items in the
\* same segment of the list l.
SameSegmentDrop(l, l2) ==
    /\ l2.op = "onDragEnd"
    /\ l2.id \in IdsOf(l)
    /\ l2.over \in IdsOf(l)
    /\ l2.id # l2.over
    /\ ItemOf(l, l2.id).isCompleted = ItemOf(l, l2.over).isCompleted

\* The ids of the segment of l that holds the items whose isCompleted is c.
SegmentIds(l, c) == IdSeq(SelectSeq(l, LAMBDA it : it.isCompleted = c))

\* The sequence s without the element x.
Without(s, x) == SelectSeq(s, LAMBDA y : y # x)

\* The index of x in the sequence s of distinct elements.
IndexIn(s, x) == CHOOSE i \in 1..Len(s) : s[i] = x

\* C11: a drag with distinct moved and target items of one segment removes the
\* moved id from that segment and reinserts it at the index the target had
\* (delete-then-insert, not swap); the other segment keeps its order, the list
\* is the active segment followed by the completed one, reindexed, and no item
\* changes otherwise.
C11_SameSegmentDragIsListMove ==
    [][ SameSegmentDrop(items, last') =>
          LET c == ItemOf(items, last'.id).isCompleted
              before == SegmentIds(items, c)
              after == SegmentIds(items', c)
          IN  /\ Len(after) = Len(before)
              /\ after[IndexIn(before, last'.over)] = last'.id
              /\ Without(after, last'.id) = Without(before, last'.id)
              /\ SegmentIds(items', ~c) = SegmentIds(items, ~c)
              /\ Partitioned(items')
              /\ DensePositions(items')
              /\ \A id \in IdsOf(items) :
                    [ItemOf(items', id) EXCEPT !.position = 0]
                        = [ItemOf(items, id) EXCEPT !.position = 0]
      ]_vars

\* C11, witness: an item has just been dropped on another item of its segment,
\* the order of the list has changed and the other segment is not empty.
C11_DroppedWithinSegment ==
    /\ SameSegmentDrop(items, last)
    /\ Len(SegmentIds(items, ~ItemOf(items, last.id).isCompleted)) >= 1
    /\ LET seg == SegmentIds(items, ItemOf(items, last.id).isCompleted)
       IN  /\ Len(seg) >= 2
           /\ \E i \in 1..(Len(seg) - 1) :
                 {seg[i], seg[i + 1]} = {last.id, last.over}

\* ------------------------------------------------------- rejected mutations

\* The text holds nothing but white space.
Blank(text) == \A i \in 1..Len(text) : text[i] = " "

\* C12: submitting a new item, or committing an edit, whose text is empty
\* after trimming changes neither the in-memory list nor the guest store and
\* issues no remote operation, anonymous or authenticated.
C12_BlankTextIsRejected ==
    [][ (last'.op \in {"handleSubmit", "commitEdit"} /\ Blank(last'.text)) =>
          /\ items' = items
          /\ guest' = guest
          /\ inflight' = inflight
          /\ remote' = remote
          /\ nextId' = nextId
      ]_vars

\* C12, witness: a draft of white space only has just been submitted by a
\* signed-in user whose list is not empty.
C12_BlankDraftSubmitted ==
    /\ last.op = "handleSubmit"
    /\ last.text # <<>>
    /\ Blank(last.text)
    /\ session # Null
    /\ items # <<>>

\* ------------------------------------------------------ optimistic updates

\* C13: every mutation made while authenticated (add, edit, delete, toggle,
\* drag-reorder) shows in the in-memory list at the end of its own event
\* callback, and a failed remote operation of a mutation leaves the list as
\* it was.
C13_AuthenticatedMutationIsOptimistic ==
    [][ /\ (session # Null /\ last'.op = "handleSubmit" /\ ~Blank(last'.text)) =>
              /\ Len(items') = Len(items) + 1
              /\ \E i \in 1..Len(items') :
                    /\ items'[i].id \notin IdsOf(items)
                    /\ ~items'[i].isCompleted
        /\ (session # Null /\ last'.op = "commitEdit" /\ ~Blank(last'.text)) =>
              LET content == ItemOf(items', last'.id).content
              IN  /\ content # <<>>
                  /\ content[1] # " " /\ content[Len(content)] # " "
                  /\ \E i, j \in 1..Len(last'.text) : content = SubSeq(last'.text, i, j)
        /\ (session # Null /\ last'.op = "handleDelete") =>
              IdsOf(items') = IdsOf(items) \ {last'.id}
        /\ (session # Null /\ last'.op = "handleToggle") =>
              ItemOf(items', last'.id).isCompleted = ~ItemOf(items, last'.id).isCompleted
        /\ (session # Null /\ SameSegmentDrop(items, last')) =>
              LET c == ItemOf(items, last'.id).isCompleted
              IN  SegmentIds(items', c)[IndexIn(SegmentIds(items, c), last'.over)]
                      = last'.id
        /\ last'.op \in {"insertOne:error", "upsert:error", "delete:error"} =>
              items' = items
      ]_vars

\* ------------------------------------------------------------ write-through

\* The callback that has just run was a user mutation of the list l that got
\* past the handler's own rejections.
MutationOf(l, l2) ==
    \/ l2.op \in {"handleSubmit", "commitEdit"} /\ ~Blank(l2.text)
    \/ l2.op \in {"handleToggle", "handleDelete"}
    \/ SameSegmentDrop(l, l2)

WriteKinds == {"insertOne", "upsert", "delete"}

\* An upsert of the whole of the list l, reindexed, is in flight in ops.
FullUpsertIn(ops, l) ==
    \E m \in ops :
        /\ m.kind = "upsert"
        /\ Len(m.payload) = Len(l)
        /\ \A i \in 1..Len(l) :
              /\ m.payload[i].id = l[i].id
              /\ m.payload[i].title = l[i].content
              /\ m.payload[i].completed = l[i].isCompleted
              /\ m.payload[i].position = i - 1

\* C14: write-through goes to the store the current session state selects.
\* While Anonymous no remote insert, upsert or delete is issued and every
\* mutation is saved to the guest store (where the browser offers a
\* storage); while Authenticated no mutation
\* writes the guest store, an add issues its insert and every other mutation
\* an upsert of the full reindexed list.
C14_WriteThroughFollowsSession ==
    [][ /\ (session = Null /\ session' = Null) =>
              /\ \A m \in inflight' \ inflight : m.kind \notin WriteKinds
              /\ (MutationOf(items, last') /\ Writable(storage)) =>
                    guest' = reindex(items')
        /\ (session # Null /\ MutationOf(items, last')) =>
              /\ guest' = guest
              /\ IF last'.op = "handleSubmit"
                 THEN \E m \in inflight' : m.kind = "insertOne" /\ m.user = session
                 ELSE FullUpsertIn(inflight', items')
      ]_vars

\* ------------------------------------------------------------ owner scoping

\* C15: every remote operation is scoped by the owner of the session that is
\* current when it is issued: a request is issued under the current session's
\* user, the rows it sends are stamped with that user, a select adopts only
\* that user's rows, and its execution leaves every row of another owner as
\* it was, even when item identifiers collide.
C15_OperationsScopedByOwner ==
    [][ /\ \A m \in inflight' \ inflight :
              /\ m.user \in {session, session'} \ {Null}
              /\ \A i \in 1..Len(m.payload) : m.payload[i].user_id = m.user
        /\ \A m \in inflight \ inflight' :
              /\ \A i \in 1..Len(remote) :
                    remote[i].user_id # m.user =>
                        \E j \in 1..Len(remote') : remote'[j] = remote[i]
              /\ last'.op \in {"select:adopt", "reselect:ok"} =>
                    \A id \in IdsOf(items') : \E i \in 1..Len(remote) :
                        remote[i].id = id /\ remote[i].user_id = m.user
      ]_vars

\* --------------------------------------------------------- password recovery

\* C16: an auth-feed event of kind password-recovery switches the auth panel
\* into the password-reset flow and leaves the in-memory list, the guest store
\* and the table unchanged: handling it starts no merge and clears no items.
C16_PasswordRecoveryKeepsItems ==
    [][ last'.op = "PASSWORD_RECOVERY" =>
          /\ isResettingPassword' /\ authMode' = "reset"
          /\ items' = items
          /\ guest' = guest
          /\ remote' = remote
          /\ mergeRuns' = mergeRuns
          /\ \A m \in inflight' : m.kind = "select" => m \in inflight
      ]_vars

\* C17: the load of the guest list returns the empty list and never raises, in
\* every storage state -- key missing, malformed JSON, JSON that is not an
\* array, storage unavailable, storage throwing on access: when the page has
\* loaded from such a storage the component is mounted with the empty list.
C17_LoadReturnsEmptyAndNeverRaises ==
    (last.op = "init" /\ (storage # "available" \/ guest = <<>>))
        => (mounted /\ items = <<>>)

\* --------------------------------------------------------- stale snapshots

\* C18: no mutation is lost to a stale snapshot.  When the response to an
\* authenticated add's insert arrives, the list published contains the new
\* item and every item the list held immediately before the response, with
\* the content and the completion flag it had then.
C18_InsertResponseKeepsCurrentList ==
    [][ last'.op = "insertOne:ok" =>
            /\ last'.id \in IdsOf(items')
            /\ \A i \in 1..Len(items) : \E j \in 1..Len(items') :
                  /\ items'[j].id = items[i].id
                  /\ items'[j].content = items[i].content
                  /\ items'[j].isCompleted = items[i].isCompleted
      ]_vars

\* --------------------------------------------------------- remote failures

ErrorOps ==
    {"select:error", "insertMany:error", "reselect:error", "upsert:error",
     "delete:error", "insertOne:error"}

\* C19: when a remote operation fails, the initial fetch of a merge included,
\* the in-memory list afterwards is the list that was there before: the
\* failure neither empties nor reverts it, and the guest store is unchanged.
C19_FailureKeepsListAndGuestStore ==
    [][ last'.op \in ErrorOps => (items' = items /\ guest' = guest) ]_vars

\* ---------------------------------------------------------- drag controller

DragOps == {"onDragStart", "onDragEnd", "onDragCancel"}

\* C20: the drag controller is Idle exactly when activeId is null.  Drag-start
\* sets activeId to the moved id and forces editingId to null; drag-end and
\* drag-cancel return activeId to null, and nothing else changes activeId;
\* drag-cancel, and a drag-end with no target or with the moved item as its
\* target, leave the in-memory list, the guest store and the remote store
\* unchanged and issue no request.
C20_DragControllerStates ==
    [][ /\ last'.op = "onDragStart" =>
              (activeId' = last'.id /\ activeId' # NoId /\ editingId' = NoId)
        /\ last'.op \in {"onDragEnd", "onDragCancel"} =>
              (activeId # NoId /\ activeId' = NoId)
        /\ activeId' # activeId => last'.op \in DragOps
        /\ (\/ last'.op = "onDragCancel"
            \/ last'.op = "onDragEnd" /\ last'.over \in {NoId, last'.id}) =>
              (items' = items /\ guest' = guest /\ remote' = remote
                  /\ inflight' = inflight)
      ]_vars

\* C20 witness: an item of a non-empty list was dropped on itself and the
\* controller is Idle again.
C20_DroppedOnItself ==
    /\ last.op = "onDragEnd"
    /\ last.over = last.id
    /\ last.id \in IdsOf(items)
    /\ activeId = NoId

\* ------------------------------------------------------------ frame effects

\* Every item of l2 carries the content and the completion flag that the item
\* of the same id has in l, save the flag of the item but.
FieldsKept(l, l2, but) ==
    \A j \in 1..Len(l2) :
        /\ l2[j].id \in IdsOf(l)
        /\ l2[j].content = ItemOf(l, l2[j].id).content
        /\ l2[j].id # but => l2[j].isCompleted = ItemOf(l, l2[j].id).isCompleted

\* C21: toggle, edit and drag-reorder keep the set of item ids of the
\* in-memory list and never change an id.  Edit changes only the content of
\* the addressed item and keeps the order; toggle changes only the completion
\* flag of the addressed item, and positions; drag-reorder changes only order
\* and positions; delete removes exactly the addressed item and changes no
\* field other than position on the rest.
C21_MutationsKeepIdsAndOtherFields ==
    [][ /\ last'.op \in {"handleToggle", "commitEdit", "onDragEnd"} =>
              (Len(items') = Len(items) /\ IdsOf(items') = IdsOf(items))
        /\ last'.op = "commitEdit" =>
              \A i \in 1..Len(items) :
                  /\ items'[i].id = items[i].id
                  /\ items'[i].isCompleted = items[i].isCompleted
                  /\ items'[i].position = items[i].position
                  /\ items[i].id # last'.id => items'[i].content = items[i].content
        /\ last'.op = "handleToggle" => FieldsKept(items, items', last'.id)
        /\ last'.op = "onDragEnd" => FieldsKept(items, items', NoId)
        /\ last'.op = "handleDelete" =>
              /\ Len(items') = Len(items) - 1
              /\ IdsOf(items') = IdsOf(items) \ {last'.id}
              /\ FieldsKept(items, items', NoId)
      ]_vars

\* ------------------------------------------------------- orderByCompletion

\* C22: for every list, orderByCompletion returns a permutation of the same
\* items in which no completed item precedes an incomplete one, the relative
\* order inside the incomplete group and inside the completed group is kept,
\* and positions are 0..n-1; applying it to its own result changes nothing.
C22_OrderByCompletionIsStablePartition ==
    [][ last'.op = "orderByCompletion" =>
            /\ Len(items') = Len(items)
            /\ IdsOf(items') = IdsOf(items)
            /\ \A j \in 1..Len(items') :
                  items'[j] = [ItemOf(items, items'[j].id) EXCEPT !.position = j - 1]
            /\ Partitioned(items')
            /\ \A i, j \in 1..Len(items) :
                  (i < j /\ items[i].isCompleted = items[j].isCompleted) =>
                      IndexOfId(items', items[i].id) < IndexOfId(items', items[j].id)
            /\ orderByCompletion(items') = items'
            /\ last.op = "orderByCompletion" => items' = items
      ]_vars

\* C22 witness: orderByCompletion returned a list of MaxLen items that has
\* both groups and whose ids are not in ascending order.
C22_OrderedMixedList ==
    /\ last.op = "orderByCompletion"
    /\ Len(items) = MaxLen
    /\ Actives(items) # <<>>
    /\ Completeds(items) # <<>>
    /\ \E i \in 1..(Len(items) - 1) : items[i].id > items[i + 1].id

\* ------------------------------------------------------- guest round trip

\* Only handlers of the item list have run since the page loaded: no session
\* has been seen.
AnonymousSinceStartup == session = Null /\ steps = userSteps

\* C23: while the controller has been Anonymous since startup and storage
\* writes succeed, after every mutation (add, edit, delete, toggle,
\* drag-reorder) the list read back from the guest store equals the in-memory
\* list item for item: same ids, content, completion flags and positions, in
\* the same order.  (The stored fields are strings, booleans and integers,
\* which JSON.stringify and JSON.parse return unchanged.)
C23_GuestStoreMirrorsList ==
    [][ (AnonymousSinceStartup /\ Writable(storage) /\ MutationOf(items, last')) =>
            (/\ ~loadGuestItems(storage', guest').raised
             /\ loadGuestItems(storage', guest').value = items')
      ]_vars

\* ------------------------------------------------------------------ deletes

\* C24: a deleted item stays deleted.  After the delete of an item while
\* authenticated, once every remote operation in flight has completed, in
\* whatever order the responses arrived, the item is absent from the in-memory
\* list and from the owner's rows in the remote store.
C24_DeletedItemStaysDeleted ==
    inflight = {} =>
        \A d \in deleted :
            /\ d.id \notin IdsOf(items)
            /\ \A i \in 1..Len(remote) :
                  ~(remote[i].id = d.id /\ remote[i].user_id = d.user)

\* --------------------------------------------------------------------- adds

\* l2 is l with exactly one item more, the incomplete item newId, placed
\* immediately before the first completed item of l (at the end when l has
\* none); the items of l keep their order, content and completion flag.
AddedBeforeCompleted(l, l2, newId) ==
    /\ Len(l2) = Len(l) + 1
    /\ Cardinality({ j \in 1..Len(l2) : l2[j].id = newId }) = 1
    /\ LET k == CHOOSE j \in 1..Len(l2) : l2[j].id = newId
       IN  /\ ~l2[k].isCompleted
           /\ \A j \in 1..(k - 1) : ~l[j].isCompleted
           /\ k <= Len(l) => l[k].isCompleted
           /\ \A j \in 1..Len(l) :
                 LET j2 == IF j < k THEN j ELSE j + 1
                 IN  /\ l2[j2].id = l[j].id
                     /\ l2[j2].content = l[j].content
                     /\ l2[j2].isCompleted = l[j].isCompleted

\* C25: a successful add with non-empty trimmed content inserts exactly one
\* new incomplete item immediately before the first completed item of the
\* list (at the end when there is none) and keeps the relative order of all
\* existing items; in guest mode the new item's id differs from every id
\* already in the list.  An add succeeds in guest mode when handleSubmit has
\* run, and when authenticated when the response to its insert arrives.
C25_AddInsertsBeforeCompleted ==
    [][ /\ (last'.op = "handleSubmit" /\ ~Blank(last'.text) /\ ~Authenticated) =>
              /\ AddedBeforeCompleted(items, items', last'.id)
              /\ last'.id \notin IdsOf(items)
              /\ ItemOf(items', last'.id).content = Trim(last'.text)
        /\ last'.op = "insertOne:ok" =>
              AddedBeforeCompleted(items, items', last'.id)
      ]_vars

====
